---- MODULE Spec2Model ----
(***************************************************************************)
(* Model of lib/sm/sm.c: the secure monitor's world-switch dispatch loop,  *)
(* the trusted-service handler registry, the reference-counted boot-       *)
(* argument view and the IRQ interception routine.                         *)
(*                                                                         *)
(* Every C statement that touches shared state is one step of the thread   *)
(* that runs it.  Threads interleave freely, except that                   *)
(*   - a thread blocked on boot_args_lock waits for the lock,              *)
(*   - the dispatch thread runs only once thread_resume made it runnable,  *)
(*   - sm_handle_irq runs in interrupt context: it is entered only while   *)
(*     no critical section masks interrupts and no thread runs until it    *)
(*     has returned.                                                       *)
(* Variables marked "history" are not program state: they record what the  *)
(* program did (calls made to external primitives, results returned).      *)
(***************************************************************************)
EXTENDS Integers, Sequences, FiniteSets, TLC

(***************************************************************************)
(* Bounds of the model.                                                    *)
(***************************************************************************)
\* references one consumer thread holds at the same time
MaxHold == 2
\* calls of sm_register_trusted_service_handler in one run
MaxReg == 3
\* dispatch-loop iterations whose switch call is logged
MaxIter == 3
\* non-null results the switch primitive gives one sm_handle_irq call
MaxDrain == 2
\* interrupts taken in one run
MaxIrq == 1

(***************************************************************************)
(* Values.                                                                 *)
(***************************************************************************)
NULL == "NULL"
\* the virtual address kmap_contig stores on success
View == "view"
\* what kmap_contig may leave in the slot when it fails
Junk == "junk"
\* the dispatch thread's handle
NsThread == "ns-switch"

NO_ERROR == "NO_ERROR"
ERR_ALREADY_EXISTS == "ERR_ALREADY_EXISTS"
ERR_INVALID_ARGS == "ERR_INVALID_ARGS"
ERR_NOT_CONFIGURED == "ERR_NOT_CONFIGURED"
\* a failure code of kmap_contig
ERR_GENERIC == "ERR_GENERIC"

\* long ret = 0
RetInitial == "0"
SM_ERR_UNEXPECTED_RESTART == "SM_ERR_UNEXPECTED_RESTART"
SM_ERR_NOT_SUPPORTED == "SM_ERR_NOT_SUPPORTED"
SM_ERR_INTERRUPTED == "SM_ERR_INTERRUPTED"
SM_ERR_INTERLEAVED_SMC == "SM_ERR_INTERLEAVED_SMC"
INT_NO_RESCHEDULE == "INT_NO_RESCHEDULE"

\* nothing returned / nothing written yet
None == "none"
\* output slots sm_get_boot_args has not written
Unwritten == [written |-> FALSE, ptr |-> NULL, size |-> 0]
\* a caller's pointer to an output slot, when it is not NULL
SlotPtr == "&slot"
\* no sm_get_boot_args call in progress
NoSlots == [boot_argsp |-> None, args_sizep |-> None]

(***************************************************************************)
(* Threads.                                                                *)
(***************************************************************************)
\* the bootstrap thread, which runs the init hooks sm_init and
\* sm_release_boot_args
Boot == "boot"
\* threads that call sm_get_boot_args / sm_put_boot_args
Consumers == {"c1", "c2"}
\* threads that call sm_register_trusted_service_handler
Registrars == {"r1", "r2"}
\* the thread sm_init creates to run sm_wait_for_smcall
NS == "ns"
Threads == {Boot, NS} \cup Consumers \cup Registrars

\* the boot loader's <<physical address, size>> pairs
BootArgChoices == {<<0, 0>>, <<0, 16>>, <<4096, 0>>, <<4096, 16>>}
\* the handlers a caller may pass, NULL among them
Handlers == {"h1", "h2"}
HandlerArgs == Handlers \cup {NULL}
\* what a trusted-service handler may return
HandlerRets == {RetInitial, "R1"}
\* contents of a ts_args_t
ArgVals == {"a1", "a2"}

VARIABLES
    \* ---- program state ----
    sm_platform_boot_args,  \* extern long sm_platform_boot_args[2]
    boot_args,              \* static void *boot_args
    boot_args_refcnt,       \* static int boot_args_refcnt
    boot_args_lock,         \* static mutex_t boot_args_lock: holder or NULL
    nsthread,               \* static thread_t *nsthread
    ts_handler,             \* static trusted_service_handler_routine
    pc,                     \* each thread's position
    err,                    \* local err / return value of each thread's call
    outp,                   \* consumer's output slots *boot_argsp, *args_sizep
    slots,                  \* consumer's arguments boot_argsp, args_sizep
    fn,                     \* registrar's argument fn
    ret,                    \* sm_wait_for_smcall: long ret
    ns_args,                \* sm_wait_for_smcall: ts_args_t *ns_args
    args,                   \* sm_wait_for_smcall: ts_args_t args
    cs,                     \* critical-section depth each thread contributes
    ipc,                    \* sm_handle_irq: position
    irq_args,               \* sm_handle_irq: ts_args_t *args
    \* ---- environment ----
    mapState,               \* the mapping: "never" | "mapped" | "unmapped"
    nsState,                \* the dispatch thread: "none"|"suspended"|"ready"
    nsbuf,                  \* the switch primitive's transient buffer
    \* ---- history ----
    held,                   \* references each thread owns and has not dropped
    excess,                 \* some caller released a reference it did not own
    kunmapCalls,            \* calls of kunmap
    resumeCalls,            \* calls of thread_resume(nsthread)
    resumedBy,              \* call site of the resume that started the thread
    regLog,                 \* completed register calls: <<fn, result>>
    iters,                  \* logged loop iterations: arg, res, reg, out, val
    seen,                   \* what the handler was given in its last call
    irqLog,                 \* codes sm_handle_irq passed in its current call
    irqDone,                \* completed sm_handle_irq calls: log and result
    irqCount                \* interrupts taken

bootVars == <<sm_platform_boot_args, boot_args, boot_args_refcnt,
              boot_args_lock, nsthread, mapState, nsState, held, excess,
              kunmapCalls, resumeCalls, resumedBy, outp, slots>>
regVars == <<ts_handler, fn, regLog>>
loopVars == <<ret, ns_args, args, iters, seen>>
irqVars == <<ipc, irq_args, irqLog, irqDone, irqCount>>
vars == <<bootVars, regVars, loopVars, irqVars, pc, err, cs, nsbuf>>

(***************************************************************************)
(* Init: the static initialisers of sm.c (lines 38-44), before any init    *)
(* hook has run.  The boot loader's values are fixed before boot.          *)
(***************************************************************************)
Init ==
    /\ sm_platform_boot_args \in BootArgChoices
    /\ boot_args = NULL
    /\ boot_args_refcnt = 0
    /\ boot_args_lock = NULL
    /\ nsthread = NULL
    /\ ts_handler = NULL
    /\ pc = [t \in Threads |->
                IF t = Boot THEN "init_lock"
                ELSE IF t = NS THEN "loop_enter" ELSE "idle"]
    /\ err = [t \in Threads |-> None]
    /\ outp = [t \in Consumers |-> Unwritten]
    /\ slots = [t \in Consumers |-> NoSlots]
    /\ fn = [t \in Registrars |-> NULL]
    /\ ret = RetInitial
    /\ ns_args = NULL
    /\ args = None
    /\ cs = [t \in Threads |-> 0]
    /\ ipc = "idle"
    /\ irq_args = NULL
    /\ mapState = "never"
    /\ nsState = "none"
    /\ nsbuf = None
    /\ held = [t \in Threads |-> 0]
    /\ excess = FALSE
    /\ kunmapCalls = 0
    /\ resumeCalls = 0
    /\ resumedBy = None
    /\ regLog = <<>>
    /\ iters = <<>>
    /\ seen = [h |-> NULL, a |-> None]
    /\ irqLog = <<>>
    /\ irqDone = <<>>
    /\ irqCount = 0

(***************************************************************************)
(* Scheduling.                                                             *)
(***************************************************************************)
\* interrupts are masked while some thread is inside a critical section
IntsEnabled == \A t \in Threads : cs[t] = 0

\* sm_handle_irq is running
InIrq == ipc # "idle"

\* halt() was called: thread creation failed in sm_init
Halted == pc[Boot] = "halted"

\* sm_init has returned
Booted == pc[Boot] \notin {"init_lock", "init_map", "init_chk", "init_unlock",
                           "init_create", "halted"}

\* thread t may take a step
Running(t) ==
    /\ ~InIrq
    /\ ~Halted
    /\ t = NS => nsState = "ready"
    /\ t \in Consumers => Booted

Goto(t, l) == pc' = [pc EXCEPT ![t] = l]

\* a variant of PutReturn for an sm_release_boot_args that goes on to its
\* own thread_resume after sm_put_boot_args has returned
PutReturn_FallThrough(t) == IF t = Boot THEN "rel_resume" ELSE "idle"

\* where sm_put_boot_args returns to
PutReturn(t) == IF t = Boot THEN "rel_warn" ELSE "idle"

(***************************************************************************)
(* External primitives.                                                    *)
(***************************************************************************)
\* mutex_acquire(&boot_args_lock): blocks while another thread holds it
mutex_acquire(t) ==
    /\ boot_args_lock = NULL
    /\ boot_args_lock' = t

\* mutex_release(&boot_args_lock)
mutex_release(t) ==
    /\ boot_args_lock = t
    /\ boot_args_lock' = NULL

\* thread_resume(nsthread): makes a suspended thread runnable; a thread
\* that already runs stays as it is
thread_resume(site) ==
    /\ resumeCalls' = resumeCalls + 1
    /\ nsState' = IF nsState = "suspended" THEN "ready" ELSE nsState
    /\ resumedBy' = IF nsState = "suspended" THEN site ELSE resumedBy

\* kunmap((vaddr_t)boot_args, size)
kunmap ==
    /\ kunmapCalls' = kunmapCalls + 1
    /\ mapState' = "unmapped"

(***************************************************************************)
(* sm_init (lines 107-138), run by the bootstrap thread.                   *)
(***************************************************************************)
\* line 111: mutex_acquire(&boot_args_lock)
SmInitLock ==
    /\ pc[Boot] = "init_lock"
    /\ Running(Boot)
    /\ mutex_acquire(Boot)
    /\ Goto(Boot, "init_map")
    /\ UNCHANGED <<sm_platform_boot_args, boot_args, boot_args_refcnt,
                   nsthread, mapState, nsState, held, excess, kunmapCalls,
                   resumeCalls, resumedBy, outp, slots, regVars, loopVars, irqVars,
                   err, cs, nsbuf>>

\* line 114: both the address and the size are non-zero
BootArgsSupplied ==
    sm_platform_boot_args[1] # 0 /\ sm_platform_boot_args[2] # 0

\* lines 114-119: kmap_contig(..., (vaddr_t *)&boot_args) when the boot
\* loader supplied a region.  On success it stores the mapping's address;
\* on failure it may or may not have written the slot.
SmInitMap ==
    /\ pc[Boot] = "init_map"
    /\ Running(Boot)
    /\ IF BootArgsSupplied
       THEN \/ /\ boot_args' = View
               /\ mapState' = "mapped"
               /\ err' = [err EXCEPT ![Boot] = NO_ERROR]
               /\ Goto(Boot, "init_chk")
            \/ /\ boot_args' \in {boot_args, Junk}
               /\ mapState' = mapState
               /\ err' = [err EXCEPT ![Boot] = ERR_GENERIC]
               /\ Goto(Boot, "init_chk")
       ELSE /\ Goto(Boot, "init_unlock")
            /\ UNCHANGED <<boot_args, mapState, err>>
    /\ UNCHANGED <<sm_platform_boot_args, boot_args_refcnt, boot_args_lock,
                   nsthread, nsState, held, excess, kunmapCalls, resumeCalls,
                   resumedBy, outp, slots, regVars, loopVars, irqVars, cs, nsbuf>>

\* a variant of SmInitChk that does not count the init-time reference
SmInitChk_NoCount ==
    /\ pc[Boot] = "init_chk"
    /\ Running(Boot)
    /\ IF err[Boot] = NO_ERROR
       THEN /\ held' = [held EXCEPT ![Boot] = @ + 1]
            /\ UNCHANGED <<boot_args_refcnt, boot_args>>
       ELSE /\ boot_args' = NULL
            /\ UNCHANGED <<boot_args_refcnt, held>>
    /\ Goto(Boot, "init_unlock")
    /\ UNCHANGED <<sm_platform_boot_args, boot_args_lock, nsthread, mapState,
                   nsState, excess, kunmapCalls, resumeCalls, resumedBy, outp, slots,
                   regVars, loopVars, irqVars, err, cs, nsbuf>>

\* a variant of SmInitChk that leaves the slot as kmap_contig left it when
\* the mapping failed
SmInitChk_NoClear ==
    /\ pc[Boot] = "init_chk"
    /\ Running(Boot)
    /\ IF err[Boot] = NO_ERROR
       THEN /\ boot_args_refcnt' = boot_args_refcnt + 1
            /\ held' = [held EXCEPT ![Boot] = @ + 1]
            /\ boot_args' = boot_args
       ELSE UNCHANGED <<boot_args, boot_args_refcnt, held>>
    /\ Goto(Boot, "init_unlock")
    /\ UNCHANGED <<sm_platform_boot_args, boot_args_lock, nsthread, mapState,
                   nsState, excess, kunmapCalls, resumeCalls, resumedBy, outp, slots,
                   regVars, loopVars, irqVars, err, cs, nsbuf>>

\* lines 121-126: count the init-time reference, or clear the slot
SmInitChk ==
    /\ pc[Boot] = "init_chk"
    /\ Running(Boot)
    /\ IF err[Boot] = NO_ERROR
       THEN /\ boot_args_refcnt' = boot_args_refcnt + 1
            /\ held' = [held EXCEPT ![Boot] = @ + 1]
            /\ boot_args' = boot_args
       ELSE /\ boot_args' = NULL
            /\ UNCHANGED <<boot_args_refcnt, held>>
    /\ Goto(Boot, "init_unlock")
    /\ UNCHANGED <<sm_platform_boot_args, boot_args_lock, nsthread, mapState,
                   nsState, excess, kunmapCalls, resumeCalls, resumedBy, outp, slots,
                   regVars, loopVars, irqVars, err, cs, nsbuf>>

\* line 129: mutex_release(&boot_args_lock)
SmInitUnlock ==
    /\ pc[Boot] = "init_unlock"
    /\ Running(Boot)
    /\ mutex_release(Boot)
    /\ Goto(Boot, "init_create")
    /\ UNCHANGED <<sm_platform_boot_args, boot_args, boot_args_refcnt,
                   nsthread, mapState, nsState, held, excess, kunmapCalls,
                   resumeCalls, resumedBy, outp, slots, regVars, loopVars, irqVars,
                   err, cs, nsbuf>>

\* lines 131-137: thread_create leaves the new thread suspended; when it
\* fails sm_init halts the system
SmInitCreate ==
    /\ pc[Boot] = "init_create"
    /\ Running(Boot)
    /\ \/ /\ nsthread' = NsThread
          /\ nsState' = "suspended"
          /\ Goto(Boot, "hooks")
       \/ /\ nsthread' = NULL
          /\ nsState' = nsState
          /\ Goto(Boot, "halted")
    /\ UNCHANGED <<sm_platform_boot_args, boot_args, boot_args_refcnt,
                   boot_args_lock, mapState, held, excess, kunmapCalls,
                   resumeCalls, resumedBy, outp, slots, regVars, loopVars, irqVars,
                   err, cs, nsbuf>>

(***************************************************************************)
(* sm_get_boot_args (lines 165-185).                                       *)
(***************************************************************************)
\* a variant of SlotMissing that rejects the call only when both slots are
\* null
SlotMissing_Both(s) == s.boot_argsp = NULL /\ s.args_sizep = NULL

\* line 169: if (!boot_argsp || !args_sizep)
SlotMissing(s) == s.boot_argsp = NULL \/ s.args_sizep = NULL

\* lines 165-170: the call, each output slot pointer valid or null
GetCall(t) ==
    /\ pc[t] = "idle"
    /\ Running(t)
    /\ held[t] < MaxHold
    /\ \E bp, sp \in {NULL, SlotPtr} :
          /\ slots' = [slots EXCEPT ![t] = [boot_argsp |-> bp,
                                            args_sizep |-> sp]]
          /\ IF SlotMissing(slots'[t])
             THEN /\ err' = [err EXCEPT ![t] = ERR_INVALID_ARGS]
                  /\ Goto(t, "get_ret")
             ELSE /\ err' = [err EXCEPT ![t] = NO_ERROR]
                  /\ Goto(t, "get_lock")
    /\ UNCHANGED <<sm_platform_boot_args, boot_args, boot_args_refcnt,
                   boot_args_lock, nsthread, mapState, nsState, held, excess,
                   kunmapCalls, resumeCalls, resumedBy, outp, regVars,
                   loopVars, irqVars, cs, nsbuf>>

\* line 172: mutex_acquire(&boot_args_lock)
GetLock(t) ==
    /\ pc[t] = "get_lock"
    /\ Running(t)
    /\ mutex_acquire(t)
    /\ Goto(t, "get_test")
    /\ UNCHANGED <<sm_platform_boot_args, boot_args, boot_args_refcnt,
                   nsthread, mapState, nsState, held, excess, kunmapCalls,
                   resumeCalls, resumedBy, outp, slots, regVars, loopVars, irqVars,
                   err, cs, nsbuf>>

\* lines 174-177: no view, no reference
GetTest(t) ==
    /\ pc[t] = "get_test"
    /\ Running(t)
    /\ IF boot_args = NULL
       THEN /\ err' = [err EXCEPT ![t] = ERR_NOT_CONFIGURED]
            /\ Goto(t, "get_unlock")
       ELSE /\ err' = err
            /\ Goto(t, "get_take")
    /\ UNCHANGED <<bootVars, regVars, loopVars, irqVars, cs, nsbuf>>

\* a variant of GetTake that hands out the view without counting the
\* reference
GetTake_NoCount(t) ==
    /\ pc[t] = "get_take"
    /\ Running(t)
    /\ held' = [held EXCEPT ![t] = @ + 1]
    /\ outp' = [outp EXCEPT ![t] = [written |-> TRUE, ptr |-> boot_args,
                                    size |-> sm_platform_boot_args[2]]]
    /\ Goto(t, "get_unlock")
    /\ UNCHANGED <<sm_platform_boot_args, boot_args, boot_args_refcnt,
                   boot_args_lock, nsthread, mapState, nsState, excess,
                   kunmapCalls, resumeCalls, resumedBy, slots, regVars,
                   loopVars, irqVars, err, cs, nsbuf>>

\* lines 179-181: take a reference and fill the output slots
GetTake(t) ==
    /\ pc[t] = "get_take"
    /\ Running(t)
    /\ boot_args_refcnt' = boot_args_refcnt + 1
    /\ held' = [held EXCEPT ![t] = @ + 1]
    /\ outp' = [outp EXCEPT ![t] = [written |-> TRUE, ptr |-> boot_args,
                                    size |-> sm_platform_boot_args[2]]]
    /\ Goto(t, "get_unlock")
    /\ UNCHANGED <<sm_platform_boot_args, boot_args, boot_args_lock,
                   nsthread, mapState, nsState, excess, kunmapCalls,
                   resumeCalls, resumedBy, slots, regVars, loopVars, irqVars,
                   err, cs, nsbuf>>

\* line 183: mutex_release(&boot_args_lock)
GetUnlock(t) ==
    /\ pc[t] = "get_unlock"
    /\ Running(t)
    /\ mutex_release(t)
    /\ Goto(t, "get_ret")
    /\ UNCHANGED <<sm_platform_boot_args, boot_args, boot_args_refcnt,
                   nsthread, mapState, nsState, held, excess, kunmapCalls,
                   resumeCalls, resumedBy, outp, slots, regVars, loopVars, irqVars,
                   err, cs, nsbuf>>

\* line 184 (and 170): return err; the caller goes on with fresh slots
GetRet(t) ==
    /\ pc[t] = "get_ret"
    /\ Running(t)
    /\ err' = [err EXCEPT ![t] = None]
    /\ outp' = [outp EXCEPT ![t] = Unwritten]
    /\ slots' = [slots EXCEPT ![t] = NoSlots]
    /\ Goto(t, "idle")
    /\ UNCHANGED <<sm_platform_boot_args, boot_args, boot_args_refcnt,
                   boot_args_lock, nsthread, mapState, nsState, held, excess,
                   kunmapCalls, resumeCalls, resumedBy, regVars, loopVars,
                   irqVars, cs, nsbuf>>

(***************************************************************************)
(* sm_put_boot_args (lines 187-205).                                       *)
(***************************************************************************)
\* a consumer calls sm_put_boot_args, owning a reference or not
PutCall(t) ==
    /\ pc[t] = "idle"
    /\ Running(t)
    /\ excess' = (excess \/ held[t] = 0)
    /\ Goto(t, "put_lock")
    /\ UNCHANGED <<sm_platform_boot_args, boot_args, boot_args_refcnt,
                   boot_args_lock, nsthread, mapState, nsState, held,
                   kunmapCalls, resumeCalls, resumedBy, outp, slots, regVars,
                   loopVars, irqVars, err, cs, nsbuf>>

\* line 189: mutex_acquire(&boot_args_lock)
PutLock(t) ==
    /\ pc[t] = "put_lock"
    /\ Running(t)
    /\ mutex_acquire(t)
    /\ Goto(t, "put_test")
    /\ UNCHANGED <<sm_platform_boot_args, boot_args, boot_args_refcnt,
                   nsthread, mapState, nsState, held, excess, kunmapCalls,
                   resumeCalls, resumedBy, outp, slots, regVars, loopVars, irqVars,
                   err, cs, nsbuf>>

\* the caller's reference, if it owned one, is gone
Dropped(t) == [held EXCEPT ![t] = IF @ > 0 THEN @ - 1 ELSE 0]

\* a variant of PutTest without the test for a missing view
PutTest_NoGuard(t) ==
    /\ pc[t] = "put_test"
    /\ Running(t)
    /\ Goto(t, "put_dec")
    /\ UNCHANGED <<bootVars, regVars, loopVars, irqVars, err, cs, nsbuf>>

\* lines 191-195: without a view only a warning is logged
PutTest(t) ==
    /\ pc[t] = "put_test"
    /\ Running(t)
    /\ IF boot_args = NULL
       THEN /\ held' = Dropped(t)
            /\ Goto(t, "put_unlock")
       ELSE /\ held' = held
            /\ Goto(t, "put_dec")
    /\ UNCHANGED <<sm_platform_boot_args, boot_args, boot_args_refcnt,
                   boot_args_lock, nsthread, mapState, nsState, excess,
                   kunmapCalls, resumeCalls, resumedBy, outp, slots, regVars,
                   loopVars, irqVars, err, cs, nsbuf>>

\* a variant of LastReference that tests the count for having gone below
\* zero
LastReference_Negative(refcnt) == refcnt < 0

\* a variant of LastReference that takes the last but one reference for
\* the last
LastReference_OffByOne(refcnt) == refcnt <= 1

\* line 198: the reference just dropped was the last one
LastReference(refcnt) == refcnt = 0

\* lines 197-198: boot_args_refcnt--, then the test for zero
PutDec(t) ==
    /\ pc[t] = "put_dec"
    /\ Running(t)
    /\ boot_args_refcnt' = boot_args_refcnt - 1
    /\ held' = Dropped(t)
    /\ IF LastReference(boot_args_refcnt')
       THEN Goto(t, "put_unmap")
       ELSE Goto(t, "put_unlock")
    /\ UNCHANGED <<sm_platform_boot_args, boot_args, boot_args_lock,
                   nsthread, mapState, nsState, excess, kunmapCalls,
                   resumeCalls, resumedBy, outp, slots, regVars, loopVars, irqVars,
                   err, cs, nsbuf>>

\* line 199: kunmap((vaddr_t)boot_args, sm_platform_boot_args[1])
PutUnmap(t) ==
    /\ pc[t] = "put_unmap"
    /\ Running(t)
    /\ kunmap
    /\ Goto(t, "put_clear")
    /\ UNCHANGED <<sm_platform_boot_args, boot_args, boot_args_refcnt,
                   boot_args_lock, nsthread, nsState, held, excess,
                   resumeCalls, resumedBy, outp, slots, regVars, loopVars, irqVars,
                   err, cs, nsbuf>>

\* a variant of PutClear that leaves boot_args pointing at the unmapped
\* view
PutClear_Missing(t) ==
    /\ pc[t] = "put_clear"
    /\ Running(t)
    /\ Goto(t, "put_resume")
    /\ UNCHANGED <<bootVars, regVars, loopVars, irqVars, err, cs, nsbuf>>

\* line 200: boot_args = NULL
PutClear(t) ==
    /\ pc[t] = "put_clear"
    /\ Running(t)
    /\ boot_args' = NULL
    /\ Goto(t, "put_resume")
    /\ UNCHANGED <<sm_platform_boot_args, boot_args_refcnt, boot_args_lock,
                   nsthread, mapState, nsState, held, excess, kunmapCalls,
                   resumeCalls, resumedBy, outp, slots, regVars, loopVars, irqVars,
                   err, cs, nsbuf>>

\* a variant of PutResume that does not resume the dispatch thread
PutResume_Missing(t) ==
    /\ pc[t] = "put_resume"
    /\ Running(t)
    /\ Goto(t, "put_unlock")
    /\ UNCHANGED <<bootVars, regVars, loopVars, irqVars, err, cs, nsbuf>>

\* line 201: thread_resume(nsthread)
PutResume(t) ==
    /\ pc[t] = "put_resume"
    /\ Running(t)
    /\ thread_resume("put")
    /\ Goto(t, "put_unlock")
    /\ UNCHANGED <<sm_platform_boot_args, boot_args, boot_args_refcnt,
                   boot_args_lock, nsthread, mapState, held, excess,
                   kunmapCalls, outp, slots, regVars, loopVars, irqVars, err, cs,
                   nsbuf>>

\* line 204: mutex_release(&boot_args_lock), and the return
PutUnlock(t) ==
    /\ pc[t] = "put_unlock"
    /\ Running(t)
    /\ mutex_release(t)
    /\ Goto(t, PutReturn(t))
    /\ UNCHANGED <<sm_platform_boot_args, boot_args, boot_args_refcnt,
                   nsthread, mapState, nsState, held, excess, kunmapCalls,
                   resumeCalls, resumedBy, outp, slots, regVars, loopVars, irqVars,
                   err, cs, nsbuf>>

(***************************************************************************)
(* sm_release_boot_args (lines 207-221), the last init hook, run by the    *)
(* bootstrap thread.  It reads boot_args without taking the lock.          *)
(***************************************************************************)
\* a variant of RelTest that resumes the dispatch thread whether or not a
\* view is mapped
RelTest_NoCheck ==
    /\ pc[Boot] = "hooks"
    /\ Running(Boot)
    /\ Goto(Boot, "rel_resume")
    /\ UNCHANGED <<bootVars, regVars, loopVars, irqVars, err, cs, nsbuf>>

\* lines 209-210: if (boot_args) sm_put_boot_args(); else ...
RelTest ==
    /\ pc[Boot] = "hooks"
    /\ Running(Boot)
    /\ IF boot_args # NULL
       THEN Goto(Boot, "put_lock")
       ELSE Goto(Boot, "rel_resume")
    /\ UNCHANGED <<bootVars, regVars, loopVars, irqVars, err, cs, nsbuf>>

\* line 215: thread_resume(nsthread) when there is no view
RelResume ==
    /\ pc[Boot] = "rel_resume"
    /\ Running(Boot)
    /\ thread_resume("release")
    /\ Goto(Boot, "rel_warn")
    /\ UNCHANGED <<sm_platform_boot_args, boot_args, boot_args_refcnt,
                   boot_args_lock, nsthread, mapState, held, excess,
                   kunmapCalls, outp, slots, regVars, loopVars, irqVars, err, cs,
                   nsbuf>>

\* lines 218-220: the leak warning
RelWarn ==
    /\ pc[Boot] = "rel_warn"
    /\ Running(Boot)
    /\ err' = [err EXCEPT ![Boot] = IF boot_args # NULL THEN "WARNING"
                                    ELSE None]
    /\ Goto(Boot, "done")
    /\ UNCHANGED <<bootVars, regVars, loopVars, irqVars, cs, nsbuf>>

(***************************************************************************)
(* sm_register_trusted_service_handler (lines 142-152).                    *)
(***************************************************************************)
\* register calls begun so far
RegCalls == Len(regLog) + Cardinality({t \in Registrars : pc[t] # "idle"})

\* the call, with any handler value
RegCall(t) ==
    /\ pc[t] = "idle"
    /\ Running(t)
    /\ RegCalls < MaxReg
    /\ \E f \in HandlerArgs : fn' = [fn EXCEPT ![t] = f]
    /\ Goto(t, "reg_test")
    /\ UNCHANGED <<bootVars, ts_handler, regLog, loopVars, irqVars, err, cs,
                   nsbuf>>

\* line 144: a handler is registered already
AlreadyRegistered == ts_handler # NULL

\* lines 144-145: if (ts_handler) return ERR_ALREADY_EXISTS
RegTest(t) ==
    /\ pc[t] = "reg_test"
    /\ Running(t)
    /\ IF AlreadyRegistered
       THEN /\ err' = [err EXCEPT ![t] = ERR_ALREADY_EXISTS]
            /\ Goto(t, "reg_ret")
       ELSE /\ err' = err
            /\ Goto(t, "reg_enter")
    /\ UNCHANGED <<bootVars, regVars, loopVars, irqVars, cs, nsbuf>>

\* a variant of RegEnter that goes on to the write without entering the
\* critical section
RegEnter_NoSection(t) ==
    /\ pc[t] = "reg_enter"
    /\ Running(t)
    /\ Goto(t, "reg_write")
    /\ UNCHANGED <<bootVars, regVars, loopVars, irqVars, err, cs, nsbuf>>

\* line 147: enter_critical_section()
RegEnter(t) ==
    /\ pc[t] = "reg_enter"
    /\ Running(t)
    /\ cs' = [cs EXCEPT ![t] = @ + 1]
    /\ Goto(t, "reg_write")
    /\ UNCHANGED <<bootVars, regVars, loopVars, irqVars, err, nsbuf>>

\* line 148: ts_handler = fn
RegWrite(t) ==
    /\ pc[t] = "reg_write"
    /\ Running(t)
    /\ ts_handler' = fn[t]
    /\ Goto(t, "reg_exit")
    /\ UNCHANGED <<bootVars, fn, regLog, loopVars, irqVars, err, cs, nsbuf>>

\* lines 149-151: exit_critical_section(); return NO_ERROR
RegExit(t) ==
    /\ pc[t] = "reg_exit"
    /\ Running(t)
    /\ cs' = [cs EXCEPT ![t] = @ - 1]
    /\ err' = [err EXCEPT ![t] = NO_ERROR]
    /\ Goto(t, "reg_ret")
    /\ UNCHANGED <<bootVars, regVars, loopVars, irqVars, nsbuf>>

\* the return to the caller
RegRet(t) ==
    /\ pc[t] = "reg_ret"
    /\ Running(t)
    /\ regLog' = Append(regLog, [fn |-> fn[t], res |-> err[t]])
    /\ err' = [err EXCEPT ![t] = None]
    /\ fn' = [fn EXCEPT ![t] = NULL]
    /\ Goto(t, "idle")
    /\ UNCHANGED <<bootVars, ts_handler, loopVars, irqVars, cs, nsbuf>>

(***************************************************************************)
(* The world-switch primitive sm_sched_nonsecure (external).  It returns   *)
(* null, or a pointer to its transient buffer, which it has refilled.      *)
(***************************************************************************)
BufPtr == "&nsbuf"

SwitchResults ==
    {[ptr |-> NULL, buf |-> nsbuf]} \cup
    {[ptr |-> BufPtr, buf |-> a] : a \in ArgVals}

(***************************************************************************)
(* sm_wait_for_smcall (lines 46-76), run by the dispatch thread.           *)
(***************************************************************************)
\* the iteration in progress is one the log records
Logged == iters # <<>> /\ iters[Len(iters)].out = "pending"

\* the log, with the outcome of the iteration in progress filled in
Outcome(kind, v) ==
    IF Logged
    THEN [iters EXCEPT ![Len(iters)] = [@ EXCEPT !.out = kind, !.val = v]]
    ELSE iters

\* line 52: enter_critical_section()
LoopEnter ==
    /\ pc[NS] = "loop_enter"
    /\ Running(NS)
    /\ cs' = [cs EXCEPT ![NS] = @ + 1]
    /\ Goto(NS, "loop_yield")
    /\ UNCHANGED <<bootVars, regVars, loopVars, irqVars, err, nsbuf>>

\* line 54: thread_yield()
LoopYield ==
    /\ pc[NS] = "loop_yield"
    /\ Running(NS)
    /\ Goto(NS, "loop_sched")
    /\ UNCHANGED <<bootVars, regVars, loopVars, irqVars, err, cs, nsbuf>>

\* line 55: ns_args = sm_sched_nonsecure(ret); the first n calls are logged
LoopSched(n) ==
    /\ pc[NS] = "loop_sched"
    /\ Running(NS)
    /\ \E r \in SwitchResults :
          /\ ns_args' = r.ptr
          /\ nsbuf' = r.buf
          /\ iters' = IF Len(iters) < n
                      THEN Append(iters,
                               [arg |-> ret,
                                res |-> IF r.ptr = NULL THEN "null"
                                        ELSE "args",
                                reg |-> "pending", out |-> "pending",
                                val |-> None])
                      ELSE iters
    /\ Goto(NS, "loop_test")
    /\ UNCHANGED <<bootVars, regVars, ret, args, seen, irqVars, err, cs>>

\* line 57: if (!ns_args)
LoopTest ==
    /\ pc[NS] = "loop_test"
    /\ Running(NS)
    /\ IF ns_args = NULL
       THEN Goto(NS, "loop_restart")
       ELSE Goto(NS, "loop_copy")
    /\ UNCHANGED <<bootVars, regVars, loopVars, irqVars, err, cs, nsbuf>>

\* a variant of LoopRestart that keeps the previous result code
LoopRestart_KeepRet ==
    /\ pc[NS] = "loop_restart"
    /\ Running(NS)
    /\ iters' = Outcome("restart", None)
    /\ Goto(NS, "loop_exit_null")
    /\ UNCHANGED <<bootVars, regVars, ret, ns_args, args, seen, irqVars, err,
                   cs, nsbuf>>

\* line 58: ret = SM_ERR_UNEXPECTED_RESTART
LoopRestart ==
    /\ pc[NS] = "loop_restart"
    /\ Running(NS)
    /\ ret' = SM_ERR_UNEXPECTED_RESTART
    /\ iters' = Outcome("restart", None)
    /\ Goto(NS, "loop_exit_null")
    /\ UNCHANGED <<bootVars, regVars, ns_args, args, seen, irqVars, err, cs,
                   nsbuf>>

\* a variant of LoopExitNull that continues without leaving the critical
\* section
LoopExitNull_StayInside ==
    /\ pc[NS] = "loop_exit_null"
    /\ Running(NS)
    /\ Goto(NS, "loop_enter")
    /\ UNCHANGED <<bootVars, regVars, loopVars, irqVars, err, cs, nsbuf>>

\* lines 59-60: exit_critical_section(); continue
LoopExitNull ==
    /\ pc[NS] = "loop_exit_null"
    /\ Running(NS)
    /\ cs' = [cs EXCEPT ![NS] = @ - 1]
    /\ Goto(NS, "loop_enter")
    /\ UNCHANGED <<bootVars, regVars, loopVars, irqVars, err, nsbuf>>

\* line 64: args = *ns_args
LoopCopy ==
    /\ pc[NS] = "loop_copy"
    /\ Running(NS)
    /\ args' = nsbuf
    /\ Goto(NS, "loop_exit")
    /\ UNCHANGED <<bootVars, regVars, ret, ns_args, iters, seen, irqVars,
                   err, cs, nsbuf>>

\* a variant of LoopExit that goes on to the dispatch without leaving the
\* critical section
LoopExit_StayInside ==
    /\ pc[NS] = "loop_exit"
    /\ Running(NS)
    /\ Goto(NS, "loop_lookup")
    /\ UNCHANGED <<bootVars, regVars, loopVars, irqVars, err, cs, nsbuf>>

\* line 65: exit_critical_section()
LoopExit ==
    /\ pc[NS] = "loop_exit"
    /\ Running(NS)
    /\ cs' = [cs EXCEPT ![NS] = @ - 1]
    /\ Goto(NS, "loop_lookup")
    /\ UNCHANGED <<bootVars, regVars, loopVars, irqVars, err, nsbuf>>

\* the log, with what the registry held at the lookup filled in
Lookup(registered) ==
    IF Logged
    THEN [iters EXCEPT ![Len(iters)] =
             [@ EXCEPT !.reg = IF registered THEN "yes" ELSE "no"]]
    ELSE iters

\* line 68: if (ts_handler)
LoopLookup ==
    /\ pc[NS] = "loop_lookup"
    /\ Running(NS)
    /\ iters' = Lookup(ts_handler # NULL)
    /\ IF ts_handler # NULL
       THEN Goto(NS, "loop_call")
       ELSE Goto(NS, "loop_nohandler")
    /\ UNCHANGED <<bootVars, regVars, ret, ns_args, args, seen, irqVars, err,
                   cs, nsbuf>>

\* a variant of LoopCall that hands the primitive's buffer to the handler
\* instead of the copy
LoopCall_PassBuffer ==
    /\ pc[NS] = "loop_call"
    /\ Running(NS)
    /\ seen' = [h |-> ts_handler, a |-> nsbuf]
    /\ Goto(NS, "loop_handler")
    /\ UNCHANGED <<bootVars, regVars, ret, ns_args, args, iters, irqVars,
                   err, cs, nsbuf>>

\* line 69: the call ts_handler(&args) is made
LoopCall ==
    /\ pc[NS] = "loop_call"
    /\ Running(NS)
    /\ seen' = [h |-> ts_handler, a |-> args]
    /\ Goto(NS, "loop_handler")
    /\ UNCHANGED <<bootVars, regVars, ret, ns_args, args, iters, irqVars,
                   err, cs, nsbuf>>

\* a variant of LoopHandlerReturn that leaves the loop when the handler
\* reports a failure
LoopHandlerReturn_Break ==
    /\ pc[NS] = "loop_handler"
    /\ Running(NS)
    /\ \E v \in HandlerRets :
          /\ ret' = v
          /\ iters' = Outcome("handler", v)
          /\ IF v = RetInitial
             THEN Goto(NS, "loop_enter")
             ELSE Goto(NS, "loop_left")
    /\ UNCHANGED <<bootVars, regVars, ns_args, args, seen, irqVars, err, cs,
                   nsbuf>>

\* line 69: the handler returns, ret = its result
LoopHandlerReturn ==
    /\ pc[NS] = "loop_handler"
    /\ Running(NS)
    /\ \E v \in HandlerRets :
          /\ ret' = v
          /\ iters' = Outcome("handler", v)
    /\ Goto(NS, "loop_enter")
    /\ UNCHANGED <<bootVars, regVars, ns_args, args, seen, irqVars, err, cs,
                   nsbuf>>

\* lines 70-74: no handler registered, ret = SM_ERR_NOT_SUPPORTED
LoopNoHandler ==
    /\ pc[NS] = "loop_nohandler"
    /\ Running(NS)
    /\ ret' = SM_ERR_NOT_SUPPORTED
    /\ iters' = Outcome("nohandler", None)
    /\ Goto(NS, "loop_enter")
    /\ UNCHANGED <<bootVars, regVars, ns_args, args, seen, irqVars, err, cs,
                   nsbuf>>

(***************************************************************************)
(* sm_handle_irq (lines 154-163), run in interrupt context.                *)
(***************************************************************************)
\* non-null results the primitive gave the current sm_handle_irq call
Drained == Cardinality({i \in 1..Len(irqLog) : irqLog[i].res = "args"})

\* the results the primitive may give the current call
IrqResults == {r \in SwitchResults : r.ptr # NULL => Drained < MaxDrain}

\* an interrupt is taken
IrqEntry ==
    /\ ipc = "idle"
    /\ ~Halted
    /\ IntsEnabled
    /\ irqCount < MaxIrq
    /\ irqCount' = irqCount + 1
    /\ irqLog' = <<>>
    /\ ipc' = "irq_first"
    /\ UNCHANGED <<bootVars, regVars, loopVars, irq_args, irqDone, pc, err,
                   cs, nsbuf>>

\* args = sm_sched_nonsecure(code)
IrqSwitch(code) ==
    \E r \in IrqResults :
       /\ irq_args' = r.ptr
       /\ nsbuf' = r.buf
       /\ irqLog' = Append(irqLog, [code |-> code,
                                    res |-> IF r.ptr = NULL THEN "null"
                                            ELSE "args"])

\* line 158: args = sm_sched_nonsecure(SM_ERR_INTERRUPTED)
IrqFirst ==
    /\ ipc = "irq_first"
    /\ IrqSwitch(SM_ERR_INTERRUPTED)
    /\ ipc' = "irq_test"
    /\ UNCHANGED <<bootVars, regVars, loopVars, irqDone, irqCount, pc, err,
                   cs>>

\* a variant of IrqTest that returns after the first switch call
IrqTest_NoLoop ==
    /\ ipc = "irq_test"
    /\ ipc' = "irq_ret"
    /\ UNCHANGED <<bootVars, regVars, loopVars, irq_args, irqLog, irqDone,
                   irqCount, pc, err, cs, nsbuf>>

\* line 159: while (args)
IrqTest ==
    /\ ipc = "irq_test"
    /\ ipc' = IF irq_args # NULL THEN "irq_again" ELSE "irq_ret"
    /\ UNCHANGED <<bootVars, regVars, loopVars, irq_args, irqLog, irqDone,
                   irqCount, pc, err, cs, nsbuf>>

\* line 160: args = sm_sched_nonsecure(SM_ERR_INTERLEAVED_SMC)
IrqAgain ==
    /\ ipc = "irq_again"
    /\ IrqSwitch(SM_ERR_INTERLEAVED_SMC)
    /\ ipc' = "irq_test"
    /\ UNCHANGED <<bootVars, regVars, loopVars, irqDone, irqCount, pc, err,
                   cs>>

\* line 162: return INT_NO_RESCHEDULE
IrqRet ==
    /\ ipc = "irq_ret"
    /\ irqDone' = Append(irqDone, [log |-> irqLog,
                                   result |-> INT_NO_RESCHEDULE])
    /\ irqLog' = <<>>
    /\ irq_args' = NULL
    /\ ipc' = "idle"
    /\ UNCHANGED <<bootVars, regVars, loopVars, irqCount, pc, err, cs,
                   nsbuf>>

(***************************************************************************)
(* Next-state relations.                                                   *)
(***************************************************************************)
\* sm_init and sm_release_boot_args, run by the bootstrap thread
InitHooks ==
    \/ SmInitLock \/ SmInitMap \/ SmInitChk \/ SmInitUnlock \/ SmInitCreate
    \/ RelTest \/ RelResume \/ RelWarn
    \/ PutLock(Boot) \/ PutTest(Boot) \/ PutDec(Boot) \/ PutUnmap(Boot)
    \/ PutClear(Boot) \/ PutResume(Boot) \/ PutUnlock(Boot)

\* the consumers' calls of sm_get_boot_args and sm_put_boot_args
ConsumerCalls ==
    \E t \in Consumers :
       \/ GetCall(t) \/ GetLock(t) \/ GetTest(t) \/ GetTake(t)
       \/ GetUnlock(t) \/ GetRet(t) \/ PutCall(t)
       \/ PutLock(t) \/ PutTest(t) \/ PutDec(t) \/ PutUnmap(t)
       \/ PutClear(t) \/ PutResume(t) \/ PutUnlock(t)

RegSteps(t) ==
    \/ RegTest(t) \/ RegEnter(t) \/ RegWrite(t) \/ RegExit(t) \/ RegRet(t)

\* one call of sm_register_trusted_service_handler in the whole run
OneRegCall(t) ==
    /\ RegCalls = 0
    /\ RegCall(t)

\* the dispatch thread up to the handler lookup, the first n switch calls
\* logged
SwitchSteps(n) ==
    \/ LoopEnter \/ LoopYield \/ LoopSched(n) \/ LoopTest \/ LoopRestart
    \/ LoopExitNull \/ LoopCopy \/ LoopExit \/ LoopLookup \/ LoopNoHandler

\* the dispatch thread's call of the registered handler
HandlerSteps == LoopCall \/ LoopHandlerReturn

\* the dispatch thread
DispatchLoop(n) == SwitchSteps(n) \/ HandlerSteps

\* interrupts
Interrupts == IrqEntry \/ IrqFirst \/ IrqTest \/ IrqAgain \/ IrqRet

\* the whole program, every caller concurrent
Next ==
    \/ InitHooks
    \/ ConsumerCalls
    \/ \E t \in Registrars : RegCall(t) \/ RegSteps(t)
    \/ DispatchLoop(MaxIter)
    \/ Interrupts

Spec == Init /\ [][Next]_vars

(***************************************************************************)
(* The parts of the program, each with the callers it is specified for.    *)
(* Every behaviour of a part is a behaviour of Spec.                       *)
(***************************************************************************)
\* the boot-argument lifetime: the init hooks, two concurrent consumers and
\* the dispatch thread they release; nobody registers a handler
NextBoot == InitHooks \/ ConsumerCalls \/ SwitchSteps(0)

SpecBoot == Init /\ [][NextBoot]_vars

\* the registry: one thread's registrations, one after the other, and the
\* dispatch thread
NextRegister ==
    \/ InitHooks
    \/ RegCall("r1") \/ RegSteps("r1")
    \/ DispatchLoop(0)

SpecRegister == Init /\ [][NextRegister]_vars

\* the dispatch loop with its switch calls logged, and one registration
NextDispatch ==
    \/ InitHooks
    \/ OneRegCall("r1") \/ RegSteps("r1")
    \/ DispatchLoop(MaxIter)

SpecDispatch == Init /\ [][NextDispatch]_vars

\* the handler each registrar thread passes when the two race
HandlerOf(t) == IF t = "r1" THEN "h1" ELSE "h2"

\* registrar t makes its one call, with its own handler
RaceCall(t) ==
    /\ \A i \in 1..Len(regLog) : regLog[i].fn # HandlerOf(t)
    /\ RegCall(t)
    /\ fn'[t] = HandlerOf(t)

\* two threads that call sm_register_trusted_service_handler once each, at
\* the same time, each with a handler of its own
NextRace ==
    \/ InitHooks
    \/ \E t \in Registrars : RaceCall(t) \/ RegSteps(t)

SpecRace == Init /\ [][NextRace]_vars

\* the dispatch loop and one registration, no switch call logged
NextLoop ==
    \/ InitHooks
    \/ OneRegCall("r1") \/ RegSteps("r1")
    \/ DispatchLoop(0)

SpecLoop == Init /\ [][NextLoop]_vars

\* the scheduler runs the dispatch thread whenever it can run, and the
\* switch primitive and the handler return
FairLoop == WF_vars(DispatchLoop(0))

SpecLoopFair == SpecLoop /\ FairLoop

\* interrupts taken while the dispatch thread runs; nobody registers a
\* handler
NextIrq == InitHooks \/ SwitchSteps(0) \/ Interrupts

SpecIrq == Init /\ [][NextIrq]_vars

\* the dispatch loop with a handler registered, and interrupts taken while
\* the loop and the handler run
NextSnapshot ==
    \/ InitHooks
    \/ OneRegCall("r1") \/ RegSteps("r1")
    \/ DispatchLoop(0)
    \/ Interrupts

SpecSnapshot == Init /\ [][NextSnapshot]_vars

\* a consumer calls sm_put_boot_args to release a reference it owns
OwnerPutCall(t) ==
    /\ held[t] > 0
    /\ PutCall(t)

\* the steps of a consumer's call once it is made
ConsumerSteps(t) ==
    \/ GetLock(t) \/ GetTest(t) \/ GetTake(t) \/ GetUnlock(t) \/ GetRet(t)
    \/ PutLock(t) \/ PutTest(t) \/ PutDec(t) \/ PutUnmap(t)
    \/ PutClear(t) \/ PutResume(t) \/ PutUnlock(t)

\* the boot-argument lifetime with consumers that release only references
\* they took
NextOwners ==
    \/ InitHooks
    \/ \E t \in Consumers : GetCall(t) \/ OwnerPutCall(t) \/ ConsumerSteps(t)

SpecOwners == Init /\ [][NextOwners]_vars

\* the scheduler runs every thread that can run, and boot_args_lock hands
\* the mutex to every waiter in turn: a call once made runs to its return.
\* Whether and when a consumer makes a call is up to the consumer.
FairOwners ==
    /\ SF_vars(InitHooks)
    /\ \A t \in Consumers : SF_vars(ConsumerSteps(t))

SpecOwnersFair == SpecOwners /\ FairOwners

(***************************************************************************)
(* Properties.                                                             *)
(***************************************************************************)
\* references owned and not yet dropped: the init-time one and the
\* consumers'
Owned == held[Boot] + held["c1"] + held["c2"]

\* C1: for every sequence of sm_register_trusted_service_handler calls, with
\* any handler values, only the first call returns NO_ERROR, every later
\* call returns ERR_ALREADY_EXISTS and leaves ts_handler as the first call
\* set it, and the handler the dispatch loop calls is the first call's.
C1_OnlyFirstRegistrationSucceeds ==
    /\ \A i \in 1..Len(regLog) : i > 1 => regLog[i].res = ERR_ALREADY_EXISTS
    /\ (Len(regLog) >= 1 /\ \A t \in Registrars : pc[t] = "idle") =>
          ts_handler = regLog[1].fn
    /\ (Len(regLog) >= 1 /\ pc[NS] = "loop_handler") => seen.h = regLog[1].fn

\* What the registry does guarantee to sequential callers: once a call that
\* passed a handler other than NULL has returned NO_ERROR, every later call
\* returns ERR_ALREADY_EXISTS and that handler stays registered.
RegistrationOfHandlerIsFinal ==
    \A i \in 1..Len(regLog) :
       (regLog[i].res = NO_ERROR /\ regLog[i].fn # NULL) =>
          /\ \A j \in 1..Len(regLog) :
                j > i => regLog[j].res = ERR_ALREADY_EXISTS
          /\ ts_handler = regLog[i].fn

\* C2: when sm_init mapped a view and every release is by an owner, the
\* view stays mapped, with no kunmap, while any of the references (the
\* init-time one and the consumers') is owned; once all are dropped kunmap
\* has been called exactly once; it is never called twice.
C2_MappedUntilLastRelease ==
    /\ kunmapCalls <= 1
    /\ ~excess =>
          /\ Owned = boot_args_refcnt
          /\ Owned > 0 =>
                boot_args = View /\ mapState = "mapped" /\ kunmapCalls = 0
          /\ (Booted /\ mapState # "never" /\ Owned = 0
                /\ \A t \in Threads : pc[t] # "put_unmap") =>
                mapState = "unmapped" /\ kunmapCalls = 1

\* C2 witness: sm_release_boot_args has returned and a consumer that took a
\* reference drops the last one: it has unmapped the view, once.
C2_Witness ==
    /\ ~excess
    /\ pc[Boot] = "done"
    /\ \E t \in Consumers : pc[t] = "put_clear"
    /\ kunmapCalls = 1

\* C3: whenever boot_args_lock is free, the view exists if and only if the
\* reference count is positive; the count is never negative.
C3_ViewIffCounted ==
    /\ boot_args_refcnt >= 0
    /\ boot_args_lock = NULL =>
          ((boot_args # NULL) <=> (boot_args_refcnt > 0))

\* C3 witness: the lock is free after a release by a caller that owned no
\* reference, and the view is still there with two references counted.
C3_Witness ==
    /\ boot_args_lock = NULL
    /\ excess
    /\ boot_args = View
    /\ boot_args_refcnt = 2

\* C4: with the consumers releasing only references they took, under every
\* interleaving, while a consumer owns a reference kunmap has not been
\* called and boot_args is not cleared, and a successful sm_get_boot_args
\* returns the mapped view.
C4_NoUnmapWhileHeld ==
    ~excess =>
       \A t \in Consumers :
          /\ held[t] > 0 =>
                boot_args = View /\ mapState = "mapped" /\ kunmapCalls = 0
          /\ (pc[t] = "get_ret" /\ err[t] = NO_ERROR) =>
                /\ held[t] > 0
                /\ outp[t] = [written |-> TRUE, ptr |-> View,
                              size |-> sm_platform_boot_args[2]]

\* C4 witness: the init-time reference is gone, one consumer is dropping a
\* reference inside sm_put_boot_args while the other, which owns one, waits
\* for the lock.
C4_Witness ==
    /\ ~excess
    /\ pc[Boot] = "done"
    /\ pc["c1"] = "put_unlock"
    /\ boot_args_lock = "c1"
    /\ pc["c2"] = "get_lock"
    /\ held["c2"] = 1
    /\ boot_args_refcnt = 1

C6_NoSwitchWhileMapped ==
    /\ pc[NS] # "loop_enter" => nsState = "ready"
    /\ nsState = "ready" =>
          /\ boot_args = NULL
          /\ boot_args_refcnt = 0
          /\ mapState # "mapped"
    /\ (mapState # "never" /\ nsState = "ready") =>
          mapState = "unmapped" /\ kunmapCalls = 1
    /\ (mapState = "unmapped" /\ boot_args_lock = NULL) => nsState = "ready"
    /\ (~excess /\ mapState # "never" /\ nsState = "ready") =>
          resumedBy = "put"

\* C6 witness: the dispatch loop has made a switch call after a view was
\* mapped and unmapped.
C6_Witness ==
    /\ pc[NS] = "loop_test"
    /\ mapState = "unmapped"
    /\ resumedBy = "put"

\* the result code the k-th logged switch call has to carry
Expected(k) ==
    IF k = 1 THEN RetInitial
    ELSE IF iters[k - 1].res = "null" THEN SM_ERR_UNEXPECTED_RESTART
    ELSE IF iters[k - 1].reg = "yes" THEN iters[k - 1].val
    ELSE SM_ERR_NOT_SUPPORTED

\* C7: the k-th switch call of the dispatch loop carries 0 for k = 1 and
\* otherwise the outcome of iteration k-1: SM_ERR_UNEXPECTED_RESTART after a
\* null result (the handler is not called in that iteration), the handler's
\* return value when a handler was registered at the lookup, and
\* SM_ERR_NOT_SUPPORTED when none was.  After a null result and then
\* arguments with no handler registered, the third call carries
\* SM_ERR_NOT_SUPPORTED.
C7_SwitchCarriesPreviousOutcome ==
    /\ \A k \in 1..Len(iters) :
          /\ iters[k].arg = Expected(k)
          /\ iters[k].res = "null" =>
                iters[k].reg = "pending" /\ iters[k].out \in {"pending",
                                                             "restart"}
          /\ iters[k].reg = "yes" => iters[k].out \in {"pending", "handler"}
          /\ iters[k].reg = "no" => iters[k].out \in {"pending", "nohandler"}
          /\ k < Len(iters) => iters[k].out # "pending"
          /\ iters[k].out = "handler" => iters[k].val \in HandlerRets
    /\ (Len(iters) >= 3 /\ iters[1].res = "null" /\ iters[2].res = "args"
          /\ iters[2].reg = "no") => iters[3].arg = SM_ERR_NOT_SUPPORTED
    /\ (pc[NS] = "loop_sched" /\ iters = <<>>) => ret = RetInitial

\* C7 witness: a null result, then arguments with no handler registered,
\* then a third switch call; and a handler that returned "R1" before the
\* third call.
C7_Witness ==
    /\ Len(iters) = 3
    /\ iters[1].res = "null"
    /\ iters[2].res = "args"
    /\ iters[2].reg = "no"
    /\ iters[3].arg = SM_ERR_NOT_SUPPORTED
    /\ iters[3].reg = "yes"
    /\ iters[3].val = "R1"

\* a completed sm_handle_irq call that drained k non-null results
DrainedRight(d) ==
    LET n == Len(d.log) IN
    /\ n >= 1
    /\ d.log[1].code = SM_ERR_INTERRUPTED
    /\ \A i \in 2..n : d.log[i].code = SM_ERR_INTERLEAVED_SMC
    /\ \A i \in 1..(n - 1) : d.log[i].res = "args"
    /\ d.log[n].res = "null"
    /\ d.result = INT_NO_RESCHEDULE

\* C8: when the switch primitive gives k non-null results and then null,
\* sm_handle_irq calls it k+1 times, first with SM_ERR_INTERRUPTED and then
\* k times with SM_ERR_INTERLEAVED_SMC, and returns INT_NO_RESCHEDULE; it
\* returns only after a null result.
C8_IrqDrains ==
    /\ \A j \in 1..Len(irqDone) : DrainedRight(irqDone[j])
    /\ ipc = "irq_ret" =>
          /\ irq_args = NULL
          /\ Len(irqLog) = Drained + 1
          /\ irqLog[Len(irqLog)].res = "null"
    /\ ipc = "irq_again" => irq_args # NULL /\ Len(irqLog) = Drained
    /\ \A i \in 1..Len(irqLog) :
          irqLog[i].code = IF i = 1 THEN SM_ERR_INTERRUPTED
                           ELSE SM_ERR_INTERLEAVED_SMC

\* C8 witness: a call that got two non-null results and then null has
\* returned, after three switch calls.
C8_Witness ==
    /\ Len(irqDone) >= 1
    /\ Len(irqDone[1].log) = 3
    /\ irqDone[1].log[2].res = "args"

\* the get calls in progress that passed valid output slots have the given
\* result in hand
OnlyResult(e) ==
    \A t \in Consumers :
       /\ pc[t] # "get_take"
       /\ pc[t] = "get_unlock" => err[t] = e
       /\ pc[t] = "get_ret" => err[t] \in {e, ERR_INVALID_ARGS}

\* C9: when sm_init has returned without a view, boot_args is NULL, the
\* count is zero, the dispatch thread exists, every sm_get_boot_args with
\* valid slots returns ERR_NOT_CONFIGURED, and sm_release_boot_args resumes
\* the dispatch thread itself, without sm_put_boot_args and without kunmap.
C9_NoViewAtInit ==
    (Booted /\ mapState = "never") =>
       /\ boot_args = NULL
       /\ boot_args_refcnt = 0
       /\ nsthread = NsThread
       /\ nsState # "none"
       /\ kunmapCalls = 0
       /\ OnlyResult(ERR_NOT_CONFIGURED)
       /\ pc[Boot] \in {"hooks", "rel_resume", "rel_warn", "done"}
       /\ pc[Boot] \in {"hooks", "rel_resume"} =>
             nsState = "suspended" /\ resumeCalls = 0
       /\ pc[Boot] \in {"rel_warn", "done"} =>
             nsState = "ready" /\ resumeCalls = 1 /\ resumedBy = "release"

\* C9 witness: kmap_contig failed, sm_release_boot_args has resumed the
\* dispatch thread, and a consumer's sm_get_boot_args is returning
\* ERR_NOT_CONFIGURED.
C9_Witness ==
    /\ mapState = "never"
    /\ pc[Boot] = "rel_warn"
    /\ err[Boot] = ERR_GENERIC
    /\ nsState = "ready"
    /\ pc["c1"] = "get_ret"
    /\ err["c1"] = ERR_NOT_CONFIGURED

\* what sm_put_boot_args must leave alone when there is no view
PutFrame ==
    <<boot_args, boot_args_refcnt, mapState, kunmapCalls, resumeCalls,
      nsState>>

\* C10: a step of sm_put_boot_args that finds no view leaves boot_args and
\* the count unchanged, calls neither kunmap nor thread_resume and goes to
\* the unlock, which changes none of them either; the count is never
\* negative, however many releases are made.
C10_PutWithoutViewIsNoOp ==
    /\ [](boot_args_refcnt >= 0)
    /\ [][\A t \in Consumers \cup {Boot} :
             /\ (pc[t] = "put_test" /\ boot_args = NULL
                   /\ pc'[t] # pc[t]) =>
                   pc'[t] = "put_unlock" /\ UNCHANGED PutFrame
             /\ (pc[t] = "put_unlock" /\ pc'[t] # pc[t]) =>
                   UNCHANGED PutFrame]_vars

\* C10 witness: a consumer's sm_put_boot_args has found no view, none ever
\* having been mapped, and is at the unlock.
C10_Witness ==
    /\ mapState = "never"
    /\ pc["c1"] = "put_unlock"
    /\ pc["c2"] = "put_lock"
    /\ boot_args_refcnt = 0

\* what an sm_get_boot_args call that fails must leave alone
GetFrame == <<boot_args, boot_args_refcnt, outp>>

\* what a successful sm_get_boot_args hands to caller t
Handed(t) ==
    [written |-> TRUE, ptr |-> boot_args, size |-> sm_platform_boot_args[2]]

\* caller t passed a null pointer for one of the output slots, or for both
EitherSlotNull(t) == slots[t].boot_argsp = NULL \/ slots[t].args_sizep = NULL

\* C11: sm_get_boot_args returns ERR_INVALID_ARGS when either output slot
\* is null and ERR_NOT_CONFIGURED when the slots are valid but there is no
\* view; the steps of a failing call leave boot_args, the count and the
\* output slots unchanged.  A successful call increments the count by
\* exactly one, in one step, and hands out the current view and the size
\* the boot loader gave.
C11_GetBootArgsContract ==
    /\ [](\A t \in Consumers :
            /\ EitherSlotNull(t) =>
                  /\ pc[t] = "get_ret"
                  /\ err[t] = ERR_INVALID_ARGS
            /\ (pc[t] = "get_ret" /\ err[t] # ERR_INVALID_ARGS) =>
                  ~EitherSlotNull(t)
            /\ (pc[t] = "get_ret" /\ err[t] # NO_ERROR) =>
                  /\ err[t] \in {ERR_INVALID_ARGS, ERR_NOT_CONFIGURED}
                  /\ outp[t] = Unwritten
            /\ (pc[t] = "get_unlock" /\ err[t] = NO_ERROR) =>
                  /\ boot_args # NULL
                  /\ outp[t] = Handed(t)
            /\ (pc[t] = "get_ret" /\ err[t] = NO_ERROR) =>
                  /\ outp[t].written
                  /\ outp[t].ptr # NULL
                  /\ outp[t].size = sm_platform_boot_args[2])
    /\ [][\A t \in Consumers :
             /\ (pc[t] = "idle" /\ pc'[t] = "get_ret") =>
                   UNCHANGED GetFrame
             /\ (pc[t] = "get_test" /\ pc'[t] # pc[t]) =>
                   /\ UNCHANGED GetFrame
                   /\ IF boot_args = NULL
                      THEN /\ pc'[t] = "get_unlock"
                           /\ err'[t] = ERR_NOT_CONFIGURED
                      ELSE /\ pc'[t] = "get_take"
                           /\ err'[t] = NO_ERROR
             /\ (pc[t] = "get_take" /\ pc'[t] # pc[t]) =>
                   /\ boot_args_refcnt' = boot_args_refcnt + 1
                   /\ boot_args' = boot_args
                   /\ outp'[t] = Handed(t)
                   /\ err'[t] = NO_ERROR
                   /\ pc'[t] = "get_unlock"
             /\ (pc[t] = "get_unlock" /\ pc'[t] # pc[t]) =>
                   /\ UNCHANGED GetFrame
                   /\ err'[t] = err[t]
                   /\ pc'[t] = "get_ret"]_vars

\* C11 witness: one consumer's call is refused for a null size slot while
\* the other's has succeeded and holds the second reference.
C11_Witness ==
    /\ pc["c1"] = "get_ret"
    /\ slots["c1"] = [boot_argsp |-> SlotPtr, args_sizep |-> NULL]
    /\ err["c1"] = ERR_INVALID_ARGS
    /\ pc["c2"] = "get_unlock"
    /\ err["c2"] = NO_ERROR
    /\ boot_args_refcnt = 2

\* references the consumers own
ConsumerRefs == held["c1"] + held["c2"]

\* every reference a consumer takes is released later on
EveryGetIsPut == \A t \in Consumers : [](held[t] > 0 => <>(held[t] = 0))

\* from some time on no consumer takes a reference
GetsCease == <>[](\A t \in Consumers : pc[t] # "get_take")

\* sm_release_boot_args with consumer references outstanding, and the
\* resume that follows the last release
ReleaseLeavesConsumerRefs ==
    /\ [](/\ (pc[Boot] \in {"rel_warn", "done"} /\ ConsumerRefs > 0) =>
               /\ boot_args = View
               /\ mapState = "mapped"
               /\ kunmapCalls = 0
               /\ nsState = "suspended"
               /\ resumeCalls = 0
               /\ held[Boot] = 0
               /\ boot_args_refcnt = ConsumerRefs
          /\ Owned > 0 => nsState # "ready"
          /\ (nsState = "ready" /\ mapState # "never") =>
               /\ resumedBy = "put"
               /\ boot_args_refcnt = 0
               /\ Owned = 0)
    /\ [][/\ (pc[Boot] = "put_dec" /\ pc'[Boot] # pc[Boot]) =>
                /\ boot_args_refcnt' = boot_args_refcnt - 1
                /\ (boot_args_refcnt' > 0) =>
                      (pc'[Boot] = "put_unlock" /\ UNCHANGED nsState)
          /\ (pc[Boot] = "rel_warn" /\ pc'[Boot] # pc[Boot]) =>
                UNCHANGED PutFrame]_vars
    /\ (\E t \in Consumers : <>[](held[t] > 0)) => [](nsState # "ready")

\* C12 as stated: sm_release_boot_args with consumer references outstanding
\* drops only the init-time reference, leaving the view mapped and the
\* dispatch thread suspended; the sm_put_boot_args that brings the count to
\* zero resumes the thread; so the thread is eventually resumed if every
\* reference taken is released later on, and never if one never is.
C12_ResumedIfEveryGetIsPut ==
    /\ ReleaseLeavesConsumerRefs
    /\ EveryGetIsPut => <>(Halted \/ nsState = "ready")

\* C12 amended: as above, but the thread is eventually resumed if every
\* reference taken is released later on and from some time on no further
\* reference is taken.  (Consumers whose references overlap for ever keep
\* the count above zero though each reference is released.)
C12_ResumedIfGetsCease ==
    /\ ReleaseLeavesConsumerRefs
    /\ (EveryGetIsPut /\ GetsCease) => <>(Halted \/ nsState = "ready")

\* C12 witness: sm_release_boot_args has returned with the warning, having
\* left a consumer's reference outstanding, and the consumer's
\* sm_put_boot_args has since resumed the dispatch thread.
C12_Witness ==
    /\ pc[Boot] = "done"
    /\ err[Boot] = "WARNING"
    /\ pc["c1"] = "put_unlock"
    /\ resumedBy = "put"
    /\ nsState = "ready"
    /\ Owned = 0

\* the dispatch loop is at a read of ts_handler: the presence test of line
\* 68 or the call through it of line 69
ReadsHandler == pc[NS] \in {"loop_lookup", "loop_call"}

\* a registrar is inside the critical section of lines 147-149
Registering(t) == pc[t] \in {"reg_write", "reg_exit"}

\* C13 as stated: every read of ts_handler in sm_wait_for_smcall, the
\* presence test and the call through it, happens while the loop is inside
\* its critical section, so that no read interleaves with a registration in
\* progress.
C13_HandlerReadInCriticalSection ==
    /\ ReadsHandler => cs[NS] > 0
    /\ ReadsHandler => \A t \in Registrars : ~Registering(t)

\* C13 amended: ts_handler is written only inside the registrar's critical
\* section, by the step of line 148, which stores the caller's fn.  The
\* dispatch loop reads ts_handler, for the presence test and for the call,
\* after it has left its own critical section: at both reads the loop
\* contributes no critical-section depth, and so does it while the handler
\* runs.
C13_HandlerReadOutsideCriticalSection ==
    /\ [](/\ ReadsHandler => cs[NS] = 0
          /\ pc[NS] \in {"loop_handler", "loop_nohandler"} => cs[NS] = 0
          /\ \A t \in Registrars :
                /\ Registering(t) <=> cs[t] = 1
                /\ cs[t] \in {0, 1})
    /\ [][ts_handler' # ts_handler =>
             \E t \in Registrars :
                /\ pc[t] = "reg_write"
                /\ pc'[t] = "reg_exit"
                /\ cs[t] = 1
                /\ ts_handler' = fn[t]]_vars

\* C13 witness: the loop is at the presence test, outside its critical
\* section, while a registrar is inside its own, between the write and the
\* exit.
C13_Witness ==
    /\ pc[NS] = "loop_lookup"
    /\ cs[NS] = 0
    /\ pc["r1"] = "reg_exit"
    /\ cs["r1"] = 1
    /\ ts_handler = "h1"

\* the loop is between the switch call's return and the end of its
\* critical section
InCopyWindow == pc[NS] \in {"loop_test", "loop_copy", "loop_exit"}

\* C14: in an iteration with a non-null switch result the arguments are
\* copied out of the primitive's buffer inside the critical section, in
\* which the buffer does not change; the copy is the loop's only read of
\* the buffer; the handler is called with the loop outside its critical
\* section and is given the copy, which stays as it is while the handler
\* runs, whatever switch calls sm_handle_irq makes meanwhile.
C14_HandlerGetsSnapshot ==
    /\ [](/\ InCopyWindow => cs[NS] = 1
          /\ pc[NS] = "loop_copy" => ns_args = BufPtr
          /\ pc[NS] = "loop_exit" => args = nsbuf /\ args \in ArgVals
          /\ pc[NS] \in {"loop_lookup", "loop_call", "loop_handler"} =>
                cs[NS] = 0 /\ args \in ArgVals
          /\ pc[NS] = "loop_handler" => seen.a = args)
    /\ [][/\ InCopyWindow => nsbuf' = nsbuf
          /\ args' # args =>
                /\ pc[NS] = "loop_copy"
                /\ cs[NS] = 1
                /\ args' = nsbuf
          /\ (pc[NS] = "loop_handler" /\ pc'[NS] = "loop_handler") =>
                UNCHANGED <<seen, args>>
          /\ nsbuf' # nsbuf => (IntsEnabled \/ pc[NS] = "loop_sched")]_vars

\* C14 witness: the handler is running on the copy "a1" while sm_handle_irq
\* has had the primitive refill its buffer with "a2".
C14_Witness ==
    /\ pc[NS] = "loop_handler"
    /\ seen.a = "a1"
    /\ args = "a1"
    /\ nsbuf = "a2"
    /\ irqCount = 1

\* C15 as stated: after a null switch result the loop sets the pending
\* result to SM_ERR_UNEXPECTED_RESTART and continues with the critical
\* section of that iteration still held.
C15_ContinuesInsideCriticalSection ==
    (pc[NS] = "loop_enter" /\ ret = SM_ERR_UNEXPECTED_RESTART) => cs[NS] = 1

\* C15 amended: after a null switch result the loop sets the pending
\* result to SM_ERR_UNEXPECTED_RESTART, leaves the critical section it
\* entered at the top of that iteration and then continues: nothing else is
\* done in between, and the loop holds no critical section at the moment
\* it continues.
C15_ContinuesOutsideCriticalSection ==
    /\ [](/\ pc[NS] \in {"loop_restart", "loop_exit_null"} =>
                cs[NS] = 1 /\ ns_args = NULL
          /\ pc[NS] = "loop_exit_null" => ret = SM_ERR_UNEXPECTED_RESTART
          /\ pc[NS] = "loop_enter" => cs[NS] = 0)
    /\ [][/\ (pc[NS] = "loop_test" /\ pc'[NS] # pc[NS]) =>
                (ns_args = NULL <=> pc'[NS] = "loop_restart")
          /\ (pc[NS] = "loop_restart" /\ pc'[NS] # pc[NS]) =>
                /\ ret' = SM_ERR_UNEXPECTED_RESTART
                /\ pc'[NS] = "loop_exit_null"
                /\ UNCHANGED <<cs, args, seen, ts_handler>>
          /\ (pc[NS] = "loop_exit_null" /\ pc'[NS] # pc[NS]) =>
                /\ cs'[NS] = 0
                /\ pc'[NS] = "loop_enter"
                /\ UNCHANGED <<ret, args, seen, ts_handler>>]_vars

\* C15 witness: the loop has continued after a null result, with the
\* restart code pending and no critical section held.
C15_Witness ==
    /\ pc[NS] = "loop_enter"
    /\ ret = SM_ERR_UNEXPECTED_RESTART
    /\ cs[NS] = 0
    /\ iters # <<>>
    /\ iters[Len(iters)].out = "restart"

\* C16: once resumed the dispatch loop always has a next step and calls
\* sm_sched_nonsecure again and again, whatever the primitive and the
\* handler return: from every state it reaches the switch call and the
\* switch call's return.  A handler's return value, whichever it is, becomes
\* ret and the loop goes on to the next iteration, whose switch call is
\* made with ret as the handler left it.
C16_LoopNeverEnds ==
    /\ [](nsState = "ready" => ENABLED DispatchLoop(0))
    /\ [](nsState = "ready" => <>(pc[NS] = "loop_sched"))
    /\ [](nsState = "ready" => <>(pc[NS] = "loop_test"))
    /\ [][/\ (pc[NS] = "loop_handler" /\ pc'[NS] # pc[NS]) =>
                /\ ret' \in HandlerRets
                /\ pc'[NS] = "loop_enter"
          /\ (pc[NS] = "loop_nohandler" /\ pc'[NS] # pc[NS]) =>
                /\ ret' = SM_ERR_NOT_SUPPORTED
                /\ pc'[NS] = "loop_enter"
          /\ (pc[NS] \in {"loop_enter", "loop_yield", "loop_sched"}
                /\ pc'[NS] # pc[NS]) => ret' = ret
          /\ (pc[NS] = "loop_sched" /\ pc'[NS] # pc[NS]) =>
                pc'[NS] = "loop_test"]_vars

\* C16 witness: the loop is back at the switch call after the handler
\* returned "R1".
C16_Witness ==
    /\ pc[NS] = "loop_sched"
    /\ ret = "R1"
    /\ seen.h = "h1"
    /\ ts_handler = "h1"

\* the completed register calls that returned NO_ERROR
Succeeded == {i \in 1..Len(regLog) : regLog[i].res = NO_ERROR}

C18_UnlockedTestIsHarmlessForOwners ==
    /\ [](/\ kunmapCalls <= 1
          /\ resumeCalls <= 1
          /\ boot_args_refcnt >= 0
          /\ boot_args_refcnt = Owned
          /\ pc[Boot] = "put_test" => boot_args = View
          /\ (pc[Boot] \in {"rel_warn", "done"} /\ Owned = 0
                /\ boot_args_lock = NULL) => resumeCalls = 1
          /\ (pc[Boot] = "done" /\ err[Boot] = "WARNING") =>
                mapState # "never")
    /\ [][(pc[Boot] = "hooks" /\ pc'[Boot] # pc[Boot]) =>
             /\ pc'[Boot] = "put_lock" <=> held[Boot] = 1
             /\ pc'[Boot] = "rel_resume" <=> mapState = "never"]_vars

\* C18 witness: sm_release_boot_args is about to read boot_args for the
\* warning, without the lock, while a consumer that holds the lock has
\* unmapped the view and not yet cleared boot_args.
C18_Witness ==
    /\ pc[Boot] = "rel_warn"
    /\ boot_args_lock = "c1"
    /\ pc["c1"] = "put_clear"
    /\ boot_args = View
    /\ mapState = "unmapped"

\* the view has been unmapped and boot_args cleared
Gone == mapState = "unmapped" /\ boot_args = NULL

\* C19: the view is mapped at most once, by sm_init, and unmapped at most
\* once.  Once it has been unmapped and boot_args cleared, boot_args stays
\* NULL and the count stays 0 in every later state, every sm_get_boot_args
\* that tests for the view finds none and returns ERR_NOT_CONFIGURED, and
\* a view is handed to a caller only while it is mapped.
C19_UnmappingIsPermanent ==
    /\ [](/\ kunmapCalls <= 1
          /\ Gone => boot_args_refcnt = 0
          /\ (mapState = "unmapped" /\ boot_args # NULL) =>
                \E t \in Consumers \cup {Boot} :
                   pc[t] = "put_clear" /\ boot_args_lock = t
          /\ \A t \in Consumers :
                /\ (pc[t] = "get_unlock" /\ err[t] = NO_ERROR) =>
                      mapState = "mapped" /\ outp[t].ptr = View
                /\ pc[t] = "get_take" => mapState = "mapped")
    /\ [][/\ mapState' # mapState =>
                \/ /\ mapState = "never"
                   /\ mapState' = "mapped"
                   /\ pc[Boot] = "init_map"
                \/ /\ mapState = "mapped"
                   /\ mapState' = "unmapped"
          /\ Gone => Gone' /\ boot_args_refcnt' = 0
          /\ \A t \in Consumers :
                (mapState = "unmapped" /\ pc[t] = "get_test"
                   /\ pc'[t] # pc[t]) =>
                   /\ pc'[t] = "get_unlock"
                   /\ err'[t] = ERR_NOT_CONFIGURED
                   /\ outp'[t] = Unwritten]_vars

\* C19 witness: after the view was unmapped a consumer's sm_get_boot_args
\* is returning ERR_NOT_CONFIGURED while the other's sm_put_boot_args finds
\* nothing to release.
C19_Witness ==
    /\ Gone
    /\ kunmapCalls = 1
    /\ pc["c1"] = "get_ret"
    /\ err["c1"] = ERR_NOT_CONFIGURED
    /\ pc["c2"] = "put_unlock"
    /\ boot_args_refcnt = 0

\* the part of an iteration that runs inside the critical section
InsideSection ==
    pc[NS] \in {"loop_yield", "loop_sched", "loop_test", "loop_restart",
                "loop_exit_null", "loop_copy", "loop_exit"}

\* C20: the loop's critical-section depth is 0 at the start of every
\* iteration, 1 from the enter at the top up to the exit of the path taken
\* (so at thread_yield and at sm_sched_nonsecure) and 0 again afterwards;
\* it changes only by the enter at the top and by the one exit of the
\* null-result path or of the dispatch path, and never exceeds 1.
C20_NestingBalanced ==
    /\ [](/\ cs[NS] \in {0, 1}
          /\ cs[NS] = 1 <=> InsideSection
          /\ pc[NS] = "loop_enter" => cs[NS] = 0
          /\ pc[NS] \in {"loop_yield", "loop_sched"} => cs[NS] = 1)
    /\ [][/\ cs'[NS] = cs[NS] + 1 => pc[NS] = "loop_enter"
          /\ cs'[NS] = cs[NS] - 1 =>
                pc[NS] \in {"loop_exit_null", "loop_exit"}
          /\ cs'[NS] \in {cs[NS] - 1, cs[NS], cs[NS] + 1}
          /\ pc'[NS] # pc[NS] =>
                /\ pc[NS] = "loop_enter" => cs'[NS] = cs[NS] + 1
                /\ pc[NS] \in {"loop_exit_null", "loop_exit"} =>
                      cs'[NS] = cs[NS] - 1
                /\ pc'[NS] = "loop_enter" =>
                      pc[NS] \in {"loop_exit_null", "loop_handler",
                                  "loop_nohandler"}]_vars

\* C20 witness: the third iteration is inside its critical section, at
\* thread_yield, after an iteration that took the null-result path and one
\* that called the handler.
C20_Witness ==
    /\ pc[NS] = "loop_yield"
    /\ cs[NS] = 1
    /\ Len(iters) = 2
    /\ iters[1].out = "restart"
    /\ iters[2].out = "handler"

====
